---- MODULE Spec2Model ----
(***************************************************************************)
(* Model of topcat_scatter_utils.py: calculate_density, truncate_colormap  *)
(* and plot_density_scatter, each cut into the steps between which an      *)
(* exception, a warning or a call of an external library can be observed.  *)
(*                                                                         *)
(* External libraries are modelled by their contract only:                 *)
(*   gaussian_kde   fails, or returns one density per point it was given;  *)
(*   plt.get_cmap   resolves a registered name, fails on any other;        *)
(*   Colormap call  looks a position up in the colormap's table;           *)
(*   from_list      builds a table passing through the listed colours;     *)
(*   ax.scatter     adds one layer to the axes and returns its handle.     *)
(***************************************************************************)
EXTENDS Integers, Sequences, FiniteSets, TLC

VARIABLES
    pc,            \* position of the running call, "idle" between calls
    call,          \* operation and arguments of the running call
    x, y,          \* calculate_density: the locals x and y
    z,             \* calculate_density: the densities returned by the KDE
    warnings,      \* counts carried by the warnings emitted in this call
    kdeCalls,      \* point sets handed to gaussian_kde in this call
    cmapObj,       \* truncate_colormap: the local cmap
    registryCalls, \* names handed to plt.get_cmap in this call
    cmapSamples,   \* positions at which the source colormap was sampled
    grad,          \* truncate_colormap: new_cmap
    est,           \* plot_density_scatter: (x_sorted, y_sorted, density)
    ax,            \* plot_density_scatter: the local ax
    gcaCalls,      \* number of plt.gca() calls in this call
    kwargs,        \* plot_density_scatter: the local scatter_kwargs
    scatterCalls,  \* arguments and result of each ax.scatter call
    drawn,         \* layers this call added, per drawing surface
    ret,           \* value returned to the caller
    err            \* exception that reached the caller

densityVars == <<x, y, z, warnings, kdeCalls>>
colormapVars == <<cmapObj, registryCalls, cmapSamples, grad>>
plotVars == <<est, ax, gcaCalls, kwargs, scatterCalls, drawn>>
vars == <<pc, call, densityVars, colormapVars, plotVars, ret, err>>

----------------------------------------------------------------------------
(* Bounds of the model *)

MaxLen == 3        \* longest x or y of a direct calculate_density call
MaxDens == 1       \* densities returned by the KDE range over 0..MaxDens
Grid == 4          \* minval and maxval are multiples of 1/Grid
MaxN == 3          \* largest number n of colours sampled
LutSize == 4       \* entries of a colormap's lookup table

----------------------------------------------------------------------------
(* Values *)

None == <<>>                       \* an absent optional argument
Some(v) == <<v>>

XCoord == {"1.0", "2.0", "NaN"}
YCoord == {"1.0", "2.0", "Inf"}
Dens == 0..MaxDens
Bandwidths == {None, Some(-1), Some(0), Some(1)}

SeqsUpTo(S, n) == UNION {[1..k -> S] : k \in 0..n}

\* x = [1, 2, NaN, 4], y = [1, 2, 3, Inf]
FourPoints == << <<"1.0", "2.0", "NaN", "4.0">>, <<"1.0", "2.0", "3.0", "Inf">> >>

\* point sets of a direct calculate_density call
EstimatePoints ==
    (SeqsUpTo(XCoord, MaxLen) \X SeqsUpTo(YCoord, MaxLen)) \cup {FourPoints}

NoErr == [type |-> "None", origin |-> "None", rule |-> "None", args |-> <<>>]
\* raise ValueError(...) of lines 50, 54, 57, 113 and 116, with the values
\* its message carries
ValueError(rule, args) ==
    [type |-> "ValueError", origin |-> "validation", rule |-> rule, args |-> args]
\* an exception raised inside an external library
LibraryError(origin) ==
    [type |-> "LibraryError", origin |-> origin, rule |-> "None", args |-> <<>>]
\* Python's TypeError for a keyword argument given twice
TypeError(kw) ==
    [type |-> "TypeError", origin |-> "call", rule |-> "None", args |-> <<kw>>]

\* the exception replaced by one of the module's own
Propagate_Wrapped(e) == LibraryError("plot_density_scatter")

\* No function of the module catches an exception: what is raised at any
\* depth is what the caller of the outermost function receives.
Propagate(e) == e

NoCmap == [kind |-> "None", name |-> "", lut |-> <<>>]
NoGrad == [name |-> <<>>, lut |-> <<>>]
NoRet == [kind |-> "None"]
NoCall == [op |-> "None", x |-> <<>>, y |-> <<>>, bandwidth |-> None,
           cmap |-> NoCmap, minval |-> 0, maxval |-> 0, n |-> 0,
           ax |-> "None", kwargs |-> <<>>]

----------------------------------------------------------------------------
(* calculate_density *)

\* np.isfinite (line 60)
IsFinite(v) == v \notin {"NaN", "Inf", "-Inf"}

\* a mask that tests x alone
Mask_XOnly(xs, ys) == [i \in 1..Len(xs) |-> IsFinite(xs[i])]

\* mask = np.isfinite(x) & np.isfinite(y) (line 60)
Mask(xs, ys) == [i \in 1..Len(xs) |-> IsFinite(xs[i]) /\ IsFinite(ys[i])]

\* a[mask] (lines 64-65): the entries whose mask is set, in order
RECURSIVE Compress(_, _)
Compress(a, mask) ==
    IF a = <<>> THEN <<>>
    ELSE (IF Head(mask) THEN <<Head(a)>> ELSE <<>>) \o Compress(Tail(a), Tail(mask))

\* (~mask).sum() (line 62)
NBad(mask) == Cardinality({i \in DOMAIN mask : ~mask[i]})

Perms(n) == {p \in [1..n -> 1..n] : \A i, j \in 1..n : p[i] = p[j] => i = j}

\* z.argsort() (line 70): an index order in which z is non-decreasing; the
\* order among equal densities is the sort's own
ArgSort(d) ==
    {p \in Perms(Len(d)) : \A i \in 1..(Len(d) - 1) : d[p[i]] <= d[p[i + 1]]}

\* a[idx] (line 71)
Take(a, idx) == [i \in 1..Len(idx) |-> a[idx[i]]]

\* x left in its input order
SortedTriple_XUnsorted(xs, ys, d, idx) == <<xs, Take(ys, idx), Take(d, idx)>>

\* x[idx], y[idx], z[idx] (line 71)
SortedTriple(xs, ys, d, idx) == <<Take(xs, idx), Take(ys, idx), Take(d, idx)>>

\* the count checked before the lengths
ValidatePoints_CountFirst(xs, ys, bw) ==
    IF Len(xs) < 2 THEN ValueError("count", <<Len(xs)>>)
    ELSE IF Len(xs) # Len(ys) THEN ValueError("length", <<Len(xs), Len(ys)>>)
    ELSE IF bw # None /\ bw[1] <= 0 THEN ValueError("bandwidth", <<bw[1]>>)
    ELSE NoErr

\* the count not checked
ValidatePoints_NoCount(xs, ys, bw) ==
    IF Len(xs) # Len(ys) THEN ValueError("length", <<Len(xs), Len(ys)>>)
    ELSE IF bw # None /\ bw[1] <= 0 THEN ValueError("bandwidth", <<bw[1]>>)
    ELSE NoErr

\* the first failing check of lines 48-57, NoErr when all pass
ValidatePoints(xs, ys, bw) ==
    IF Len(xs) # Len(ys) THEN ValueError("length", <<Len(xs), Len(ys)>>)
    ELSE IF Len(xs) < 2 THEN ValueError("count", <<Len(xs)>>)
    ELSE IF bw # None /\ bw[1] <= 0 THEN ValueError("bandwidth", <<bw[1]>>)
    ELSE NoErr

----------------------------------------------------------------------------
(* truncate_colormap *)

\* A colormap is a name and a lookup table of LutSize colours; a colour is
\* one intensity.  "Reds" is registered with plt.get_cmap, "custom" is an
\* object built by the caller.
Reds == [kind |-> "object", name |-> "Reds",
         lut |-> [k \in 1..LutSize |-> 10 * (k - 1)]]
Custom == [kind |-> "object", name |-> "custom",
           lut |-> [k \in 1..LutSize |-> 10 * (LutSize - k) + 5]]
Registry == {Reds}
Named(nm) == [kind |-> "name", name |-> nm, lut |-> <<>>]
CmapArgs == {Named("Reds"), Named("nonexistent"), Custom}

\* isinstance(cmap, str) (line 108)
IsStr(c) == c.kind = "name"

\* plt.get_cmap(name) (line 109) for a registered name
GetCmap(nm) == CHOOSE c \in Registry : c.name = nm

\* Positions on the colour axis are fractions <<num, den>>; minval and
\* maxval are the fractions <<minval, Grid>> and <<maxval, Grid>>.
Positions == (0 - 1)..(Grid + 1)

\* minval = maxval let through
ValidateRange_AllowsEqual(minval, maxval) ==
    IF minval > maxval THEN ValueError("order", <<minval, maxval>>)
    ELSE IF ~(0 <= minval /\ minval <= Grid /\ 0 <= maxval /\ maxval <= Grid)
    THEN ValueError("bounds", <<minval, maxval>>)
    ELSE NoErr

\* the first failing check of lines 112-116, NoErr when both pass
ValidateRange(minval, maxval) ==
    IF minval >= maxval THEN ValueError("order", <<minval, maxval>>)
    ELSE IF ~(0 <= minval /\ minval <= Grid /\ 0 <= maxval /\ maxval <= Grid)
    THEN ValueError("bounds", <<minval, maxval>>)
    ELSE NoErr

\* the end point left out, as np.linspace(..., endpoint=False)
Linspace_NoEndpoint(start, stop, n) ==
    [i \in 1..n |-> <<start * n + (i - 1) * (stop - start), Grid * n>>]

\* np.linspace(minval, maxval, n) (line 120): n = 1 gives the start alone,
\* n >= 2 gives start + i * (stop - start) / (n - 1) for i = 0 .. n - 1
Linspace(start, stop, n) ==
    IF n = 1 THEN << <<start, Grid>> >>
    ELSE [i \in 1..n |->
            <<start * (n - 1) + (i - 1) * (stop - start), Grid * (n - 1)>>]

\* cmap(X) for one position X (line 120): entry floor(X * N) of the table,
\* the last entry for X = 1, the end entries for X outside [0, 1]
ColormapCall(c, pos) ==
    LET N == Len(c.lut)
        i == (pos[1] * N) \div pos[2]
    IN  IF pos[1] < 0 THEN c.lut[1]
        ELSE IF i >= N THEN c.lut[N]
        ELSE c.lut[i + 1]

\* LinearSegmentedColormap.from_list(name, colors) (lines 118-121): a table
\* of LutSize entries interpolated linearly between the colours, which sit
\* at evenly spaced positions from 0 to 1; its first entry is the first
\* colour and its last entry the last colour.  One colour alone spans no
\* interval and gives no table.
FromList(nm, colors) ==
    LET n == Len(colors)
        L == LutSize
        Entry(k) ==
            IF k = L - 1 THEN colors[n]
            ELSE LET j == (k * (n - 1)) \div (L - 1)
                     r == k * (n - 1) - j * (L - 1)
                 IN  colors[j + 1] + ((colors[j + 2] - colors[j + 1]) * r) \div (L - 1)
    IN  [name |-> nm,
         lut |-> IF n < 2 THEN <<>> ELSE [k \in 1..L |-> Entry(k - 1)]]

\* '{a:.2f}' (line 119) of the position v / Grid, in hundredths, rounded
\* half to even
Fmt2(v) ==
    LET q == (100 * v) \div Grid
        r == (100 * v) % Grid
    IN  IF 2 * r < Grid THEN q
        ELSE IF 2 * r > Grid THEN q + 1
        ELSE IF q % 2 = 0 THEN q ELSE q + 1

\* 'truncated({n},{a:.2f},{b:.2f})' (line 119)
TruncatedName(c, minval, maxval) == <<"truncated", c.name, Fmt2(minval), Fmt2(maxval)>>

----------------------------------------------------------------------------
(* plot_density_scatter *)

Surfaces == {"gca", "ax1"}         \* plt.gca()'s axes and a caller's axes
AxArgs == {"None", "ax1"}

\* **scatter_kwargs: the keywords a caller may add
KwValues == [edgecolor |-> {"k"}, s |-> {"5"}, c |-> {"r"}]
KwArgs ==
    UNION {{f \in [S -> {"k", "5", "r"}] : \A k \in S : f[k] \in KwValues[k]} :
           S \in SUBSET (DOMAIN KwValues)}

\* point sets of a plot_density_scatter call: clean, with pairs to drop
\* (two left, one left), too short, of unequal lengths
PlotPoints ==
    { << <<"1.0", "2.0">>, <<"2.0", "1.0">> >>,
      << <<"1.0", "NaN", "2.0">>, <<"2.0", "1.0", "1.0">> >>,
      << <<"1.0", "NaN">>, <<"1.0", "Inf">> >>,
      << <<"1.0">>, <<"1.0">> >>,
      << <<"1.0", "2.0">>, <<"1.0">> >> }

\* ranges of a plot_density_scatter call: whole, inner, empty, below 0,
\* above 1
PlotRanges ==
    { <<0, Grid>>, <<1, Grid - 1>>, <<1, 1>>, <<0 - 1, Grid>>, <<0, Grid + 1>> }

\* the caller's ax ignored
ResolveAx_AlwaysGca(a) == "gca"

\* ax = plt.gca() if ax is None (lines 167-168)
ResolveAx(a) == IF a = "None" THEN "gca" ELSE a

\* the key assigned, not defaulted
SetDefault_Overwrites(kw, key, val) ==
    [k \in DOMAIN kw \cup {key} |-> IF k = key THEN val ELSE kw[k]]

\* scatter_kwargs.setdefault('edgecolor', 'None') (line 171)
SetDefault(kw, key, val) ==
    [k \in DOMAIN kw \cup {key} |-> IF k \in DOMAIN kw THEN kw[k] ELSE val]

\* keywords line 173 names itself
ScatterKeywords == {"c", "cmap"}

----------------------------------------------------------------------------
(* The calls *)

Init ==
    /\ pc = "idle" /\ call = NoCall
    /\ x = <<>> /\ y = <<>> /\ z = <<>>
    /\ warnings = <<>> /\ kdeCalls = <<>>
    /\ cmapObj = NoCmap /\ registryCalls = <<>>
    /\ cmapSamples = <<>> /\ grad = NoGrad
    /\ est = <<>> /\ ax = "None" /\ gcaCalls = 0 /\ kwargs = <<>>
    /\ scatterCalls = <<>>
    /\ drawn = [s \in Surfaces |-> <<>>]
    /\ ret = NoRet /\ err = NoErr

\* calculate_density(x, y, bandwidth) called directly (lines 45-46)
CallEstimate ==
    /\ pc = "idle"
    /\ \E pts \in EstimatePoints, bw \in Bandwidths :
         /\ call' = [NoCall EXCEPT !.op = "estimate", !.x = pts[1], !.y = pts[2],
                                   !.bandwidth = bw]
         /\ x' = pts[1]
         /\ y' = pts[2]
    /\ pc' = "cd_validate"
    /\ UNCHANGED <<z, warnings, kdeCalls, colormapVars, plotVars, ret, err>>

\* truncate_colormap(cmap, minval, maxval, n) called directly
CallTruncate ==
    /\ pc = "idle"
    /\ \E c \in CmapArgs, lo \in Positions, hi \in Positions, n \in 1..MaxN :
         /\ call' = [NoCall EXCEPT !.op = "truncate", !.cmap = c, !.minval = lo,
                                   !.maxval = hi, !.n = n]
         /\ cmapObj' = c
    /\ pc' = "tc_resolve"
    /\ UNCHANGED <<densityVars, registryCalls, cmapSamples, grad, plotVars, ret, err>>

\* plot_density_scatter(x, y, bandwidth, cmap, minval, maxval, n, ax,
\* **scatter_kwargs) called; line 164 enters calculate_density
CallPlot ==
    /\ pc = "idle"
    /\ \E pts \in PlotPoints, bw \in Bandwidths, c \in CmapArgs,
          rng \in PlotRanges, n \in 1..MaxN, a \in AxArgs, kw \in KwArgs :
         /\ call' = [op |-> "plot", x |-> pts[1], y |-> pts[2], bandwidth |-> bw,
                     cmap |-> c, minval |-> rng[1], maxval |-> rng[2], n |-> n,
                     ax |-> a, kwargs |-> kw]
         /\ x' = pts[1]
         /\ y' = pts[2]
         /\ ax' = a
         /\ kwargs' = kw
    /\ pc' = "cd_validate"
    /\ UNCHANGED <<z, warnings, kdeCalls, colormapVars, est, gcaCalls,
                   scatterCalls, drawn, ret, err>>

\* lines 48-57
Validate ==
    /\ pc = "cd_validate"
    /\ LET e == ValidatePoints(x, y, call.bandwidth) IN
         IF e # NoErr
         THEN pc' = "error" /\ err' = Propagate(e)
         ELSE pc' = "cd_filter" /\ err' = err
    /\ UNCHANGED <<call, densityVars, colormapVars, plotVars, ret>>

\* lines 59-65
Filter ==
    /\ pc = "cd_filter"
    /\ LET mask == Mask(x, y) IN
         IF \E i \in DOMAIN mask : ~mask[i]
         THEN /\ warnings' = Append(warnings, NBad(mask))
              /\ x' = Compress(x, mask)
              /\ y' = Compress(y, mask)
         ELSE UNCHANGED <<warnings, x, y>>
    /\ pc' = "cd_kde"
    /\ UNCHANGED <<call, z, kdeCalls, colormapVars, plotVars, ret, err>>

\* lines 67-68: gaussian_kde(xy, bw_method=bandwidth)(xy) fails, or gives
\* one density for each point of xy
Kde ==
    /\ pc = "cd_kde"
    /\ kdeCalls' = Append(kdeCalls, [x |-> x, y |-> y, bw_method |-> call.bandwidth])
    /\ \/ /\ pc' = "error"
          /\ err' = Propagate(LibraryError("gaussian_kde"))
          /\ z' = z
       \/ /\ \E d \in [1..Len(x) -> Dens] : z' = d
          /\ pc' = "cd_sort"
          /\ err' = err
    /\ UNCHANGED <<call, x, y, warnings, colormapVars, plotVars, ret>>

\* lines 70-73; the result goes to the caller, or to line 164 and on into
\* truncate_colormap (line 165)
Sort ==
    /\ pc = "cd_sort"
    /\ \E idx \in ArgSort(z) :
         LET t == SortedTriple(x, y, z, idx) IN
           IF call.op = "estimate"
           THEN /\ ret' = [kind |-> "triple", val |-> t]
                /\ pc' = "done"
                /\ UNCHANGED <<est, cmapObj>>
           ELSE /\ est' = t
                /\ cmapObj' = call.cmap
                /\ pc' = "tc_resolve"
                /\ ret' = ret
    /\ UNCHANGED <<call, densityVars, registryCalls, cmapSamples, grad, ax,
                   gcaCalls, kwargs, scatterCalls, drawn, err>>

\* lines 107-109
Resolve ==
    /\ pc = "tc_resolve"
    /\ IF IsStr(cmapObj)
       THEN /\ registryCalls' = Append(registryCalls, cmapObj.name)
            /\ IF \E c \in Registry : c.name = cmapObj.name
               THEN /\ cmapObj' = GetCmap(cmapObj.name)
                    /\ pc' = "tc_validate"
                    /\ err' = err
               ELSE /\ pc' = "error"
                    /\ err' = Propagate(LibraryError("get_cmap"))
                    /\ cmapObj' = cmapObj
       ELSE /\ pc' = "tc_validate"
            /\ UNCHANGED <<registryCalls, cmapObj, err>>
    /\ UNCHANGED <<call, densityVars, cmapSamples, grad, plotVars, ret>>

\* lines 111-116
CheckRange ==
    /\ pc = "tc_validate"
    /\ LET e == ValidateRange(call.minval, call.maxval) IN
         IF e # NoErr
         THEN pc' = "error" /\ err' = Propagate(e)
         ELSE pc' = "tc_build" /\ err' = err
    /\ UNCHANGED <<call, densityVars, colormapVars, plotVars, ret>>

\* lines 118-122; the result goes to the caller, or to line 165
Build ==
    /\ pc = "tc_build"
    /\ LET at == Linspace(call.minval, call.maxval, call.n)
           colors == [i \in 1..Len(at) |-> ColormapCall(cmapObj, at[i])]
           new_cmap == FromList(TruncatedName(cmapObj, call.minval, call.maxval),
                                colors)
       IN  /\ cmapSamples' = at
           /\ grad' = new_cmap
           /\ IF call.op = "truncate"
              THEN ret' = [kind |-> "colormap", val |-> new_cmap] /\ pc' = "done"
              ELSE ret' = ret /\ pc' = "pds_ax"
    /\ UNCHANGED <<call, densityVars, cmapObj, registryCalls, plotVars, err>>

\* lines 167-168
Gca ==
    /\ pc = "pds_ax"
    /\ ax' = ResolveAx(ax)
    /\ gcaCalls' = IF ax = "None" THEN gcaCalls + 1 ELSE gcaCalls
    /\ pc' = "pds_kwargs"
    /\ UNCHANGED <<call, densityVars, colormapVars, est, kwargs, scatterCalls,
                   drawn, ret, err>>

\* lines 170-171
EdgeColor ==
    /\ pc = "pds_kwargs"
    /\ kwargs' = SetDefault(kwargs, "edgecolor", "None")
    /\ pc' = "pds_scatter"
    /\ UNCHANGED <<call, densityVars, colormapVars, est, ax, gcaCalls,
                   scatterCalls, drawn, ret, err>>

\* lines 173-175: a keyword of **scatter_kwargs that line 173 also names
\* is a TypeError before ax.scatter runs; otherwise ax.scatter adds one
\* layer to ax and its result is returned
Scatter ==
    /\ pc = "pds_scatter"
    /\ IF DOMAIN kwargs \cap ScatterKeywords # {}
       THEN /\ pc' = "error"
            /\ err' = Propagate(TypeError(CHOOSE k \in DOMAIN kwargs \cap ScatterKeywords : TRUE))
            /\ UNCHANGED <<scatterCalls, drawn, ret>>
       ELSE LET layer == [x |-> est[1], y |-> est[2], c |-> est[3],
                          cmap |-> grad, kwargs |-> kwargs]
                handle == [artist |-> "PathCollection", axes |-> ax,
                           layer |-> Len(drawn[ax]) + 1]
            IN  /\ drawn' = [drawn EXCEPT ![ax] = Append(@, layer)]
                /\ scatterCalls' = Append(scatterCalls,
                                          [axes |-> ax, args |-> layer, result |-> handle])
                /\ ret' = [kind |-> "handle", val |-> handle]
                /\ pc' = "done"
                /\ err' = err
    /\ UNCHANGED <<call, densityVars, colormapVars, est, ax, gcaCalls, kwargs>>

\* the call is over and its locals are gone
Return ==
    /\ pc \in {"done", "error"}
    /\ pc' = "idle" /\ call' = NoCall
    /\ x' = <<>> /\ y' = <<>> /\ z' = <<>>
    /\ warnings' = <<>> /\ kdeCalls' = <<>>
    /\ cmapObj' = NoCmap /\ registryCalls' = <<>>
    /\ cmapSamples' = <<>> /\ grad' = NoGrad
    /\ est' = <<>> /\ ax' = "None" /\ gcaCalls' = 0 /\ kwargs' = <<>>
    /\ scatterCalls' = <<>>
    /\ drawn' = [s \in Surfaces |-> <<>>]
    /\ ret' = NoRet /\ err' = NoErr

Next ==
    \/ CallEstimate \/ CallTruncate \/ CallPlot
    \/ Validate \/ Filter \/ Kde \/ Sort
    \/ Resolve \/ CheckRange \/ Build
    \/ Gca \/ EdgeColor \/ Scatter
    \/ Return

Spec == Init /\ [][Next]_vars

----------------------------------------------------------------------------
(* Properties of calculate_density *)

NonFinite == {"NaN", "Inf", "-Inf"}

\* the arguments pass lines 48-57
ValidPointArgs ==
    /\ Len(call.x) = Len(call.y)
    /\ Len(call.x) >= 2
    /\ call.bandwidth = None \/ call.bandwidth[1] > 0

\* positions of the pairs of the arguments with both coordinates finite
Surviving == {j \in 1..Len(call.x) : call.x[j] \notin NonFinite /\ call.y[j] \notin NonFinite}

\* the pairs of the arguments with both coordinates finite, in their order
FinitePairs ==
    LET pairs == [i \in 1..Len(call.x) |-> <<call.x[i], call.y[i]>>]
        Ok(p) == p[1] \notin NonFinite /\ p[2] \notin NonFinite
    IN  SelectSeq(pairs, Ok)

\* the density the KDE gave to the pair at position j of the arguments
DensityOf(j) == z[Cardinality({k \in Surviving : k <= j})]

\* t is the surviving (x, y, density) triples in some order, with
\* non-decreasing density
IsDensitySorted(t) ==
    /\ Len(t[1]) = Len(t[2]) /\ Len(t[2]) = Len(t[3])
    /\ Len(t[1]) <= Len(call.x)
    /\ \E f \in [1..Len(t[1]) -> Surviving] :
         /\ \A i, j \in 1..Len(t[1]) : f[i] = f[j] => i = j
         /\ \A j \in Surviving : \E i \in 1..Len(t[1]) : f[i] = j
         /\ \A i \in 1..Len(t[1]) :
              /\ t[1][i] = call.x[f[i]]
              /\ t[2][i] = call.y[f[i]]
              /\ t[3][i] = DensityOf(f[i])
    /\ \A i \in 1..(Len(t[3]) - 1) : t[3][i] <= t[3][i + 1]

\* C1: whenever calculate_density returns, its three results have one
\* length, at most len(x); the triples (x_sorted[i], y_sorted[i], density[i])
\* are the surviving (x[j], y[j], density of pair j) triples in some order;
\* and density is non-decreasing.
C1_SortedByDensity ==
    (call.op = "estimate" /\ pc = "done") =>
        /\ ret.kind = "triple"
        /\ IsDensitySorted(ret.val)

\* a call that dropped a pair, kept two with different densities and had
\* to swap them
C1_Witness ==
    /\ call.op = "estimate" /\ pc = "done"
    /\ warnings # <<>>
    /\ Len(ret.val[1]) = 2
    /\ ret.val[3][1] < ret.val[3][2]
    /\ ret.val[1] # x
    /\ ret.val[1][1] # ret.val[1][2]

\* C2: once the arguments have passed validation, the locals x and y are
\* exactly the pairs with both coordinates finite, in their order; one
\* warning carrying the number of dropped pairs was emitted if that number
\* is positive and none otherwise; and the call goes on to the KDE, so it
\* ends by returning that many points or by the KDE's own failure.
C2_DropsNonFinitePairs ==
    (call.op = "estimate" /\ ValidPointArgs /\ pc \notin {"cd_validate", "cd_filter"}) =>
        LET kept == FinitePairs
            nbad == Len(call.x) - Len(kept)
        IN  /\ x = [i \in 1..Len(kept) |-> kept[i][1]]
            /\ y = [i \in 1..Len(kept) |-> kept[i][2]]
            /\ warnings = IF nbad > 0 THEN <<nbad>> ELSE <<>>
            /\ pc \in {"cd_kde", "cd_sort", "done", "error"}
            /\ Len(kdeCalls) = IF pc = "cd_kde" THEN 0 ELSE 1
            /\ pc = "error" => err = LibraryError("gaussian_kde")
            /\ pc = "done" => \A k \in 1..3 : Len(ret.val[k]) = Len(kept)

\* x = [1, 2, NaN, 4], y = [1, 2, 3, Inf]: one warning reporting 2, and
\* the two remaining points returned
C2_Witness ==
    /\ call.op = "estimate" /\ pc = "done"
    /\ <<call.x, call.y>> = FourPoints
    /\ warnings = <<2>>
    /\ ret.val[1] \in {<<"1.0", "2.0">>, <<"2.0", "1.0">>}
    /\ Len(ret.val[2]) = 2 /\ Len(ret.val[3]) = 2

\* the rule of lines 48-57 the arguments break first, in the order
\* length, count, bandwidth
FirstBrokenPointRule ==
    IF Len(call.x) # Len(call.y) THEN "length"
    ELSE IF Len(call.x) < 2 THEN "count"
    ELSE IF call.bandwidth # None /\ call.bandwidth[1] <= 0 THEN "bandwidth"
    ELSE "None"

\* C4: calculate_density raises ValueError when the lengths differ, when
\* there are fewer than 2 points or when bandwidth is given and <= 0, the
\* error being that of the first rule broken in this order; when no rule
\* is broken it raises no validation error.
C4_ValidationOrder ==
    (call.op = "estimate" /\ pc # "cd_validate") =>
        IF FirstBrokenPointRule # "None"
        THEN /\ pc = "error"
             /\ err.type = "ValueError" /\ err.origin = "validation"
             /\ err.rule = FirstBrokenPointRule
        ELSE ~(pc = "error" /\ err.origin = "validation")

\* all three rules broken at once: the length error is the one raised
C4_Witness ==
    /\ call.op = "estimate" /\ pc = "error"
    /\ Len(call.x) = 0 /\ Len(call.y) = 1
    /\ call.bandwidth = Some(0)
    /\ err.rule = "length"

\* C9: every point set handed to gaussian_kde has x and y of one length,
\* only finite pairs, and at least 2 points.
C9_KdeGetsAPointSet ==
    \A i \in 1..Len(kdeCalls) :
        /\ Len(kdeCalls[i].x) = Len(kdeCalls[i].y)
        /\ \A j \in 1..Len(kdeCalls[i].x) :
             kdeCalls[i].x[j] \notin NonFinite /\ kdeCalls[i].y[j] \notin NonFinite
        /\ Len(kdeCalls[i].x) >= 2

----------------------------------------------------------------------------
(* Properties of truncate_colormap *)

\* 0 <= minval < maxval <= 1
RangeOk == 0 <= call.minval /\ call.minval < call.maxval /\ call.maxval <= Grid

\* cmap is a colormap object, or a name plt.get_cmap knows
Resolvable == call.cmap.kind = "object" \/ \E c \in Registry : c.name = call.cmap.name

NothingBuilt == grad = NoGrad /\ cmapSamples = <<>>

\* C5 as claimed: truncate_colormap raises the validation ValueError and
\* builds no colormap whenever minval >= maxval or one of them is outside
\* [0, 1]; for 0 <= minval < maxval <= 1 it raises no validation error and
\* returns a colormap.
C5_AsClaimed ==
    (call.op = "truncate" /\ pc \in {"done", "error"}) =>
        IF RangeOk
        THEN pc = "done" /\ ret.kind = "colormap"
        ELSE /\ pc = "error"
             /\ err.type = "ValueError" /\ err.origin = "validation"
             /\ NothingBuilt

\* C5: for a colormap object or a name plt.get_cmap knows, truncate_colormap
\* raises the validation ValueError and builds no colormap whenever
\* minval >= maxval or one of them is outside [0, 1], and returns a colormap
\* for 0 <= minval < maxval <= 1; for a name plt.get_cmap does not know, the
\* failure of plt.get_cmap is raised whatever the range, and no colormap is
\* built.
C5_RangeValidation ==
    (call.op = "truncate" /\ pc \in {"done", "error"}) =>
        IF ~Resolvable
        THEN pc = "error" /\ err = LibraryError("get_cmap") /\ NothingBuilt
        ELSE IF RangeOk
        THEN /\ pc = "done"
             /\ ret.kind = "colormap" /\ ret.val = grad /\ grad # NoGrad
        ELSE /\ pc = "error"
             /\ err.type = "ValueError" /\ err.origin = "validation"
             /\ err.rule \in {"order", "bounds"}
             /\ NothingBuilt

\* minval = maxval = 0.5 with a colormap object: the order error
C5_Witness ==
    /\ call.op = "truncate" /\ pc = "error"
    /\ call.cmap = Custom
    /\ call.minval = 2 /\ call.maxval = 2
    /\ err.rule = "order"

FracEq(p, q) == p[1] * q[2] = q[1] * p[2]
FracDiff(p, q) == <<q[1] * p[2] - p[1] * q[2], p[2] * q[2]>>

\* the samples are n evenly spaced positions from minval to maxval
SamplesSpanRange ==
    /\ Len(cmapSamples) = call.n
    /\ FracEq(cmapSamples[1], <<call.minval, Grid>>)
    /\ FracEq(cmapSamples[Len(cmapSamples)], <<call.maxval, Grid>>)
    /\ \A i \in 1..(Len(cmapSamples) - 2) :
         FracEq(FracDiff(cmapSamples[i], cmapSamples[i + 1]),
                FracDiff(cmapSamples[i + 1], cmapSamples[i + 2]))

\* the new colormap has, at 0.0 and at 1.0, the source's colours at
\* minval and at maxval
EndsReproduced ==
    /\ grad.lut # <<>>
    /\ ColormapCall(grad, <<0, 1>>) = ColormapCall(cmapObj, <<call.minval, Grid>>)
    /\ ColormapCall(grad, <<1, 1>>) = ColormapCall(cmapObj, <<call.maxval, Grid>>)

\* C6 as claimed: for every valid range and every n >= 1 the source is
\* sampled at n evenly spaced positions, the first at minval and the last
\* at maxval, and the new colormap has the source's colour at minval at its
\* position 0.0 and the source's colour at maxval at its position 1.0.
C6_AsClaimed ==
    (call.op = "truncate" /\ pc = "done") => SamplesSpanRange /\ EndsReproduced

\* C6: the same for every n >= 2; for n = 1 the one sample is at minval.
C6_LinearReparameterization ==
    (call.op = "truncate" /\ pc = "done") =>
        IF call.n >= 2
        THEN SamplesSpanRange /\ EndsReproduced
        ELSE Len(cmapSamples) = 1 /\ FracEq(cmapSamples[1], <<call.minval, Grid>>)

\* three samples of an inner range of a colormap object: the new colormap
\* starts at a colour that is not the source's first, and ends at another
C6_Witness ==
    /\ call.op = "truncate" /\ pc = "done"
    /\ call.cmap = Custom
    /\ call.n = 3 /\ call.minval = 1 /\ call.maxval = Grid - 1
    /\ ColormapCall(grad, <<0, 1>>) # ColormapCall(cmapObj, <<0, 1>>)
    /\ ColormapCall(grad, <<1, 1>>) # ColormapCall(grad, <<0, 1>>)

----------------------------------------------------------------------------
(* Properties of plot_density_scatter *)

Succeeded == call.op = "plot" /\ pc = "done"

\* C7: in a call that succeeds, the keywords ax.scatter receives from
\* **scatter_kwargs are the caller's, each with the caller's value, plus
\* edgecolor = 'None' if the caller gave no edgecolor.
C7_KwargsForwarded ==
    Succeeded =>
        /\ Len(scatterCalls) = 1
        /\ LET passed == scatterCalls[1].args.kwargs
               given == call.kwargs
           IN  /\ DOMAIN passed = DOMAIN given \cup {"edgecolor"}
               /\ \A k \in DOMAIN given : passed[k] = given[k]
               /\ "edgecolor" \notin DOMAIN given => passed["edgecolor"] = "None"

\* the caller set the marker size only
C7_Witness ==
    /\ Succeeded
    /\ DOMAIN call.kwargs = {"s"}
    /\ scatterCalls[1].args.kwargs = [s |-> "5", edgecolor |-> "None"]

\* C8: in a call that succeeds, one layer is added, to the caller's ax if
\* one was given and to plt.gca()'s otherwise; plt.gca() is called only when
\* no ax was given; the layer's positions and colour scalars are the
\* density-sorted points and densities of calculate_density, its colormap
\* the truncated one; and the call returns what ax.scatter returned.
C8_OneLayerOnTheSurface ==
    Succeeded =>
        LET target == IF call.ax = "None" THEN "gca" ELSE call.ax IN
        /\ Len(scatterCalls) = 1
        /\ scatterCalls[1].axes = target
        /\ Len(drawn[target]) = 1
        /\ \A s \in Surfaces \ {target} : drawn[s] = <<>>
        /\ gcaCalls = IF call.ax = "None" THEN 1 ELSE 0
        /\ LET layer == drawn[target][1] IN
             /\ layer = scatterCalls[1].args
             /\ IsDensitySorted(<<layer.x, layer.y, layer.c>>)
             /\ layer.cmap = grad /\ grad # NoGrad
        /\ ret.kind = "handle"
        /\ ret.val = scatterCalls[1].result

\* drawn on the caller's axes, the two points swapped by the sort
C8_Witness ==
    /\ Succeeded
    /\ call.ax = "ax1"
    /\ Len(drawn["ax1"]) = 1
    /\ drawn["ax1"][1].x # x
    /\ drawn["ax1"][1].c[1] < drawn["ax1"][1].c[2]

\* the failures calculate_density and truncate_colormap can end with
InnerFailures ==
    {ValueError("length", <<Len(call.x), Len(call.y)>>),
     ValueError("count", <<Len(call.x)>>),
     ValueError("order", <<call.minval, call.maxval>>),
     ValueError("bounds", <<call.minval, call.maxval>>),
     LibraryError("gaussian_kde"), LibraryError("get_cmap")}
    \cup (IF call.bandwidth = None THEN {}
          ELSE {ValueError("bandwidth", <<call.bandwidth[1]>>)})

\* C10: when plot_density_scatter fails before truncate_colormap has
\* returned, plt.gca() has not been called, ax.scatter has not been called,
\* no layer has been added to any surface, and the exception the caller
\* receives is the one calculate_density or truncate_colormap raised.
C10_FailureLeavesSurfaces ==
    (call.op = "plot" /\ pc = "error" /\ grad = NoGrad) =>
        /\ gcaCalls = 0
        /\ ax = call.ax
        /\ scatterCalls = <<>>
        /\ \A s \in Surfaces : drawn[s] = <<>>
        /\ err \in InnerFailures

\* the points were sorted, then the range was refused
C10_Witness ==
    /\ call.op = "plot" /\ pc = "error"
    /\ est # <<>>
    /\ call.ax = "None"
    /\ err.rule = "bounds"

PointRuleBroken == call.op \in {"estimate", "plot"} /\ FirstBrokenPointRule # "None"
RangeRuleBroken == call.op \in {"truncate", "plot"} /\ ~RangeOk

\* C3 as claimed: in a call whose arguments break a validation rule,
\* neither gaussian_kde nor ax.scatter is ever invoked, and the call does
\* not succeed.
C3_AsClaimed ==
    (PointRuleBroken \/ RangeRuleBroken) =>
        /\ kdeCalls = <<>>
        /\ scatterCalls = <<>>
        /\ pc # "done"

\* C3: a call that breaks a rule on the points or the bandwidth fails with
\* the validation ValueError with neither gaussian_kde nor ax.scatter
\* invoked.  A call that breaks a rule on the range never succeeds, never
\* invokes ax.scatter and builds no colormap; truncate_colormap called
\* directly never invokes gaussian_kde; plot_density_scatter with valid
\* points checks the range only after calculate_density, so when the range
\* error is raised gaussian_kde has been invoked once.
C3_EagerValidation ==
    /\ PointRuleBroken =>
         /\ kdeCalls = <<>> /\ scatterCalls = <<>>
         /\ pc \in {"cd_validate", "error"}
         /\ pc = "error" => err.type = "ValueError" /\ err.origin = "validation"
    /\ RangeRuleBroken =>
         /\ scatterCalls = <<>> /\ NothingBuilt
         /\ pc # "done"
         /\ call.op = "truncate" => kdeCalls = <<>>
         /\ (call.op = "plot" /\ pc = "error" /\ err.rule \in {"order", "bounds"})
               => Len(kdeCalls) = 1

\* valid points, minval = maxval: the KDE ran, then the range was refused
C3_Witness ==
    /\ call.op = "plot" /\ pc = "error"
    /\ FirstBrokenPointRule = "None"
    /\ call.minval = call.maxval
    /\ err.rule = "order"
    /\ Len(kdeCalls) = 1

====
